---- MODULE Spec2Model ----
(***************************************************************************)
(* A model of main_clean.py: the download retry loop (safe_download), the  *)
(* data fetch (fetch_data), the optimisation step (optimize_portfolio),    *)
(* the allocation report (print_allocation), the plot and the control flow *)
(* of main.                                                                *)
(*                                                                         *)
(* Floating-point values are modelled as exact fractions <<n, d>> in       *)
(* lowest terms with d >= 0; d = 0 encodes the IEEE special values:        *)
(* <<0,0>> is NaN, <<1,0>> is +inf and <<-1,0>> is -inf.  The estimators   *)
(* of pandas (mean, cov) and the element-wise arithmetic of numpy are      *)
(* written with this arithmetic, so that 0/0 yields NaN as it does in the  *)
(* program.                                                                *)
(***************************************************************************)
EXTENDS Integers, Sequences, FiniteSets, TLC

VARIABLES
    pc,                 \* position of main: which call comes next
    outcome,            \* how the run ended ("running" while it has not)
    exc,                \* the exception that ended the run, "none" otherwise
    printed,            \* the report sections written to standard output, in order
    plotted,            \* plot_performance has drawn the chart
    market_stocks,      \* what the provider returns for the stock tickers
    market_sp500,       \* what the provider returns for ^GSPC
    budget,             \* main: budget
    tickers,            \* safe_download: tickers ("stocks", "^GSPC", "none" when not called)
    retries,            \* safe_download: retries
    attempt,            \* safe_download: number of download attempts made so far
    dl_status,          \* safe_download: "idle", "running", "returned", "raised"
    dl_log,             \* safe_download: the result of each attempt made, in order
    data,               \* safe_download: the value returned
    adj_close,          \* main: adj_close
    sp500_norm,         \* main: sp500_norm
    returns,            \* optimize_portfolio: returns
    mean_returns,       \* optimize_portfolio: mean_returns
    cov_matrix,         \* optimize_portfolio: cov_matrix
    success,            \* optimize_portfolio: result.success (never read by the program)
    optimal_weights,    \* optimize_portfolio: result.x
    latest_prices,      \* main: latest_prices
    port_return,        \* print_allocation: port_return
    allocation_amount,  \* print_allocation: allocation_amount
    num_shares          \* print_allocation: num_shares

vars == <<pc, outcome, exc, printed, plotted, market_stocks, market_sp500, budget,
          tickers, retries, attempt, dl_status, dl_log, data, adj_close, sp500_norm,
          returns, mean_returns, cov_matrix, success, optimal_weights, latest_prices,
          port_return, allocation_amount, num_shares>>

dlVars == <<tickers, retries, attempt, dl_status, dl_log, data>>
optVars == <<returns, mean_returns, cov_matrix, success, optimal_weights, latest_prices>>
allocVars == <<port_return, allocation_amount, num_shares>>
envVars == <<market_stocks, market_sp500>>

---------------------------------------------------------------------------
(* Bounds of the model. *)

\* the largest number of time points (rows) of a price matrix
MaxT == 2
\* the solver's iterates are drawn from fractions with a denominator up to GridDen
GridDen == 3
\* weight vectors handed to the allocation step alone have denominators up to AllocDen
AllocDen == 10
\* the largest value of the parameter retries of safe_download
MaxRetries == 4

(* Constants of the program. *)

\* get_user_inputs asks for three tickers
NumStocks == 3
\* safe_download(tickers, start, end, retries=3)
DefaultRetries == 3

---------------------------------------------------------------------------
(* Floating-point arithmetic on fractions. *)

Abs(n) == IF n < 0 THEN -n ELSE n

Sign(n) == IF n > 0 THEN 1 ELSE IF n < 0 THEN -1 ELSE 0

RECURSIVE Gcd(_, _)
Gcd(a, b) == IF b = 0 THEN a ELSE Gcd(b, a % b)

\* the value n/d; n/0 is +inf, -inf or NaN by the sign of n
Float(n, d) ==
    IF d = 0 THEN <<Sign(n), 0>>
    ELSE LET g == Gcd(Abs(n), Abs(d))
             s == Sign(d)
         IN  <<(s * n) \div g, (s * d) \div g>>

NaN == <<0, 0>>
Zero == <<0, 1>>
One == <<1, 1>>
FromInt(n) == <<n, 1>>

IsNaN(x) == x = NaN
IsFinite(x) == x[2] # 0

FNeg(x) == <<-x[1], x[2]>>

FAdd(x, y) ==
    IF x[2] = 0 /\ y[2] = 0
    THEN (IF x = y THEN x ELSE NaN)
    ELSE Float(x[1] * y[2] + y[1] * x[2], x[2] * y[2])

FSub(x, y) == FAdd(x, FNeg(y))

FMul(x, y) == Float(x[1] * y[1], x[2] * y[2])

FDiv(x, y) == Float(x[1] * y[2], x[2] * y[1])

\* x <= y; every comparison with NaN is false
FLe(x, y) ==
    /\ ~IsNaN(x) /\ ~IsNaN(y)
    /\ IF IsFinite(x) /\ IsFinite(y) THEN x[1] * y[2] <= y[1] * x[2]
       ELSE IF IsFinite(x) THEN y[1] > 0
       ELSE IF IsFinite(y) THEN x[1] < 0
       ELSE x[1] <= y[1]

FLt(x, y) == FLe(x, y) /\ x # y

RECURSIVE FSum(_)
FSum(s) == IF s = <<>> THEN Zero ELSE FAdd(FSum(SubSeq(s, 1, Len(s) - 1)), s[Len(s)])

\* the array with the entries f[1], ..., f[n], each computed once
Vec(f) == <<>> \o f

\* np.dot of two vectors of the same length
Dot(u, v) == FSum([i \in 1..Len(u) |-> FMul(u[i], v[i])])

RECURSIVE SelectIdx(_, _)
\* the entries of s at the positions idx (a sequence of positions)
SelectIdx(s, idx) ==
    IF idx = <<>> THEN <<>>
    ELSE <<s[Head(idx)]>> \o SelectIdx(s, Tail(idx))

RECURSIVE KeepIdx(_, _, _)
\* the positions i..n that are in the set keep, in order
KeepIdx(i, n, keep) ==
    IF i > n THEN <<>>
    ELSE (IF i \in keep THEN <<i>> ELSE <<>>) \o KeepIdx(i + 1, n, keep)

---------------------------------------------------------------------------
(* Data frames: a sequence of column labels and a sequence of rows. *)

NoFrame == [cols |-> <<>>, rows |-> <<>>]

NumRows(df) == Len(df.rows)
NumCols(df) == Len(df.cols)

\* DataFrame.empty: some axis has length 0
IsEmpty(df) == NumCols(df) = 0 \/ NumRows(df) = 0

Column(rows, c) == [t \in 1..Len(rows) |-> rows[t][c]]

\* dropna(axis=1, how="all"): a column is kept when it holds at least one value
DropAllNaNColumns(df) ==
    LET keep == {c \in 1..NumCols(df) : \E t \in 1..NumRows(df) : ~IsNaN(df.rows[t][c])}
        idx == KeepIdx(1, NumCols(df), keep)
    IN  [cols |-> SelectIdx(df.cols, idx),
         rows |-> [t \in 1..NumRows(df) |-> SelectIdx(df.rows[t], idx)]]

RECURSIVE DropNaN(_)
\* Series.dropna(): the values that are not NaN, in order
DropNaN(s) ==
    IF s = <<>> THEN <<>>
    ELSE (IF IsNaN(Head(s)) THEN <<>> ELSE <<Head(s)>>) \o DropNaN(Tail(s))

RECURSIVE DropNaNRows(_)
\* DataFrame.dropna(): the rows that hold no NaN, in order
DropNaNRows(rows) ==
    IF rows = <<>> THEN <<>>
    ELSE (IF \E c \in 1..Len(Head(rows)) : IsNaN(Head(rows)[c]) THEN <<>> ELSE <<Head(rows)>>)
         \o DropNaNRows(Tail(rows))

RECURSIVE FFill(_)
\* forward fill: a missing value takes the last value above it
FFill(rows) ==
    IF Len(rows) <= 1 THEN rows
    ELSE LET above == FFill(SubSeq(rows, 1, Len(rows) - 1))
             prev == above[Len(above)]
             cur == rows[Len(rows)]
         IN  Append(above, [c \in 1..Len(cur) |-> IF IsNaN(cur[c]) THEN prev[c] ELSE cur[c]])

\* DataFrame.pct_change(): data / data.shift(1) - 1, the first row undefined.
\* Up to pandas 2.x the default fill_method pads missing values first; from
\* pandas 3.0 on it does not: pad tells which.
PctChange(rows, pad) ==
    LET f == IF pad THEN FFill(rows) ELSE rows
    IN  Vec([t \in 1..Len(rows) |->
            Vec([c \in 1..Len(rows[t]) |->
                IF t = 1 THEN NaN ELSE FSub(FDiv(f[t][c], f[t - 1][c]), One)])])

\* DataFrame.mean(): per column, the sum over the count (0/0 on no rows)
Mean(rows, m) ==
    Vec([c \in 1..m |-> FDiv(FSum(Column(rows, c)), FromInt(Len(rows)))])

\* DataFrame.cov(): the sample covariance with ddof = 1.  numpy scales the
\* sum of products by 1/fact with fact = n - 1, and takes fact = 0 when
\* n - 1 <= 0, so that one observation (and none) gives 0 * inf = NaN.
Cov(rows, m) ==
    LET avg == Mean(rows, m)
        n == Len(rows)
        fact == IF n - 1 <= 0 THEN 0 ELSE n - 1
        prod(i, j) == FSum([t \in 1..n |->
                         FMul(FSub(rows[t][i], avg[i]), FSub(rows[t][j], avg[j]))])
    IN  Vec([i \in 1..m |-> Vec([j \in 1..m |-> FMul(prod(i, j), FDiv(One, FromInt(fact)))])])

---------------------------------------------------------------------------
(* The data the provider may hold. *)

\* prices of the earlier rows: a missing value or a positive adjusted close
HistVals == {NaN, FromInt(1), FromInt(2)}
\* prices of the last row: also a zero or a negative quote
LastVals == HistVals \cup {FromInt(0), FromInt(-1)}

RowSeqs(n, m, last) ==
    IF n = 0 THEN {<<>>}
    ELSE {h \o <<l>> : h \in [1..(n - 1) -> [1..m -> HistVals]], l \in [1..m -> last]}

StockCols == [i \in 1..NumStocks |-> i]

\* what yf.download may return for the three tickers: up to maxT rows
RawFrames(maxT) ==
    {[cols |-> StockCols, rows |-> r] :
        r \in UNION {RowSeqs(n, NumStocks, LastVals) : n \in 0..maxT}}

\* what yf.download may return for ^GSPC
Sp500Series == {<<NaN>>, <<NaN, FromInt(2)>>}

---------------------------------------------------------------------------
(* safe_download: the retry loop around yf.download. *)

NoData == [kind |-> "none", frame |-> NoFrame, series |-> <<>>]

\* the value yf.download returns for the tickers t
Payload(t) ==
    IF t = "stocks"
    THEN [kind |-> "frame", frame |-> market_stocks, series |-> <<>>]
    ELSE [kind |-> "series", frame |-> NoFrame, series |-> market_sp500]

\* the results of one call of yf.download: it returns, it raises an exception
\* whose text holds "Too Many Requests", or it raises another exception
AttemptResults == {"ok", "rate", "other"}

\* for attempt in range(retries): the loop body runs while attempts remain
LoopContinues(made, r) == made < r

\* the state of the call after an attempt that ended with r: return data,
\* sleep and go round the loop, or break out of the loop to the raise
AfterAttemptNoBreak(r) ==
    IF r = "ok" THEN "returned" ELSE "running"
AfterAttempt(r) ==
    IF r = "ok" THEN "returned" ELSE IF r = "rate" THEN "running" ELSE "raised"

\* the call safe_download(t, start, end, retries=r) begins
SafeDownloadCall(t, r) ==
    /\ tickers' = t
    /\ retries' = r
    /\ attempt' = 0
    /\ dl_status' = "running"
    /\ dl_log' = <<>>
    /\ data' = NoData

\* the frame of a call that has returned to its caller is gone
SafeDownloadReset ==
    /\ tickers' = "none"
    /\ retries' = 0
    /\ attempt' = 0
    /\ dl_status' = "idle"
    /\ dl_log' = <<>>
    /\ data' = NoData

\* one pass of the loop body: one call of yf.download and its handling
SafeDownloadAttempt ==
    /\ dl_status = "running"
    /\ LoopContinues(attempt, retries)
    /\ \E r \in AttemptResults :
          /\ attempt' = attempt + 1
          /\ dl_log' = Append(dl_log, r)
          /\ dl_status' = AfterAttempt(r)
          /\ data' = IF r = "ok" THEN Payload(tickers) ELSE data
    /\ UNCHANGED <<tickers, retries>>
    /\ UNCHANGED <<pc, outcome, exc, printed, plotted, budget, adj_close, sp500_norm>>
    /\ UNCHANGED <<envVars, optVars, allocVars>>

\* the loop ran out of attempts: raise RuntimeError
SafeDownloadRaise ==
    /\ dl_status = "running"
    /\ ~LoopContinues(attempt, retries)
    /\ dl_status' = "raised"
    /\ UNCHANGED <<tickers, retries, attempt, dl_log, data>>
    /\ UNCHANGED <<pc, outcome, exc, printed, plotted, budget, adj_close, sp500_norm>>
    /\ UNCHANGED <<envVars, optVars, allocVars>>

---------------------------------------------------------------------------
(* get_user_inputs and fetch_data. *)

\* the budgets a user may enter
Budgets == {10000}

\* what the user types: everything valid, a budget that is no integer, or a
\* date that is not YYYY-MM-DD
InputKinds == {"ok", "bad_budget", "bad_date"}

\* main's handler: except Exception as e: print(f"An error occurred: {e}")
MainExcept(e, out) ==
    /\ pc' = "done"
    /\ outcome' = "exception"
    /\ exc' = e
    /\ printed' = out \o <<"error">>

\* get_user_inputs; on return main calls fetch_data, whose first statement
\* calls safe_download(stocks, start, end)
GetUserInputs ==
    /\ pc = "get_user_inputs"
    /\ \E kind \in InputKinds, b \in Budgets :
          IF kind = "ok"
          THEN /\ budget' = b
               /\ pc' = "fetch_stocks"
               /\ SafeDownloadCall("stocks", DefaultRetries)
               /\ UNCHANGED <<outcome, exc, printed>>
          ELSE /\ MainExcept("ValueError", printed)
               /\ UNCHANGED <<budget, dlVars>>
    /\ UNCHANGED <<plotted, adj_close, sp500_norm, envVars, optVars, allocVars>>

\* fetch_data after the first download: adj_close, then the call
\* safe_download("^GSPC", start, end)
FetchStocksDone ==
    /\ pc = "fetch_stocks"
    /\ dl_status = "returned"
    /\ adj_close' = DropAllNaNColumns(data.frame)
    /\ pc' = "fetch_sp500"
    /\ SafeDownloadCall("^GSPC", DefaultRetries)
    /\ UNCHANGED <<outcome, exc, printed, plotted, budget, sp500_norm>>
    /\ UNCHANGED <<envVars, optVars, allocVars>>

\* fetch_data after the second download: dropna(), the division by the first
\* value (IndexError on an empty series, caught below) and the return
FetchSp500Done ==
    /\ pc = "fetch_sp500"
    /\ dl_status = "returned"
    /\ LET sp500 == DropNaN(data.series)
       IN  IF sp500 = <<>>
           THEN /\ pc' = "done"
                /\ outcome' = "exit"
                /\ exc' = "IndexError"
                /\ printed' = printed \o <<"fetch_error">>
                /\ UNCHANGED sp500_norm
           ELSE /\ pc' = "fetched"
                /\ sp500_norm' = [t \in 1..Len(sp500) |-> FDiv(sp500[t], sp500[1])]
                /\ UNCHANGED <<outcome, exc, printed>>
    /\ SafeDownloadReset
    /\ UNCHANGED <<plotted, budget, adj_close, envVars, optVars, allocVars>>

\* fetch_data: except Exception as e: print(...); exit()
FetchFailed ==
    /\ pc \in {"fetch_stocks", "fetch_sp500"}
    /\ dl_status = "raised"
    /\ pc' = "done"
    /\ outcome' = "exit"
    /\ exc' = "RuntimeError"
    /\ printed' = printed \o <<"fetch_error">>
    /\ SafeDownloadReset
    /\ UNCHANGED <<plotted, budget, adj_close, sp500_norm, envVars, optVars, allocVars>>

---------------------------------------------------------------------------
(* optimize_portfolio. *)

\* bounds = tuple((0, 1) for _ in range(num_assets))
Bounds(m) == [i \in 1..m |-> <<0, 1>>]

\* constraints: {"type": "eq", "fun": lambda w: np.sum(w) - 1}
ConstraintSumOnly(w) == FSum(w)
Constraint(w) == FSub(FSum(w), One)

\* initial_guess = np.ones(num_assets) / num_assets
InitialGuess(m) == [i \in 1..m |-> FDiv(One, FromInt(m))]

\* negative_return(weights) = -np.dot(weights, mean_returns)
NegativeReturn(w, mean) == FNeg(Dot(w, mean))

InBounds(w, b) ==
    \A i \in 1..Len(w) : FLe(FromInt(b[i][1]), w[i]) /\ FLe(w[i], FromInt(b[i][2]))

\* the points of the box of the bounds on the grid of the model
GridBox(m) ==
    LET b == Bounds(m)
        lo == b[1][1]
        hi == b[1][2]
    IN  UNION {{[i \in 1..m |-> Float(f[i], den)] : f \in [1..m -> (lo * den)..(hi * den)]} :
                  den \in 1..GridDen}

\* the points that satisfy the bounds and the equality constraint handed to
\* minimize: the iterates of SLSQP, which starts from a point of this set and
\* moves along directions that keep the linear constraints
FeasiblePoints(m) ==
    {w \in GridBox(m) \cup {InitialGuess(m)} : InBounds(w, Bounds(m)) /\ Constraint(w) = Zero}

Feasible == [m \in 1..NumStocks |-> FeasiblePoints(m)]

\* the minimisers of the objective over the feasible set
ArgMin(mean, m) ==
    LET fun == {<<w, NegativeReturn(w, mean)>> : w \in Feasible[m]}
    IN  {p[1] : p \in {q \in fun : \A v \in fun : FLe(q[2], v[2])}}

\* minimize(negative_return, initial_guess, method="SLSQP", bounds, constraints):
\* the OptimizeResult it may return.  When it converges (success) x is a
\* minimiser; when it stops without converging (success is False: the
\* iteration limit, a failed line search) x is the last iterate, a feasible
\* point that is no minimiser.  With an undefined objective (a NaN in
\* mean_returns) it returns the starting point or a vector of NaN, with
\* either flag.  It raises no exception in any of these cases.
Minimize(mean, m) ==
    IF \A i \in 1..m : IsFinite(mean[i])
    THEN {[x |-> w, success |-> TRUE] : w \in ArgMin(mean, m)}
         \cup {[x |-> w, success |-> FALSE] : w \in Feasible[m] \ ArgMin(mean, m)}
    ELSE {[x |-> w, success |-> ok] :
             w \in {InitialGuess(m), [i \in 1..m |-> NaN]}, ok \in BOOLEAN}

\* main: the check adj_close.empty, which ends the run with a message
MainNoData ==
    /\ pc = "fetched"
    /\ IsEmpty(adj_close)
    /\ pc' = "done"
    /\ outcome' = "returned"
    /\ printed' = printed \o <<"no_data">>
    /\ UNCHANGED <<exc, plotted, budget, adj_close, sp500_norm>>
    /\ UNCHANGED <<dlVars, envVars, optVars, allocVars>>

\* optimize_portfolio(adj_close), and latest_prices = adj_close.iloc[-1] of main
OptimizePortfolio ==
    /\ pc = "fetched"
    /\ ~IsEmpty(adj_close)
    /\ \E pad \in BOOLEAN :
          LET num_assets == NumCols(adj_close)
              r == DropNaNRows(PctChange(adj_close.rows, pad))
              mean == Mean(r, num_assets)
          IN  /\ returns' = r
              /\ mean_returns' = mean
              /\ cov_matrix' = Cov(r, num_assets)
              /\ \E result \in Minimize(mean, num_assets) :
                    /\ success' = result.success
                    /\ optimal_weights' = result.x
    /\ latest_prices' = adj_close.rows[NumRows(adj_close)]
    /\ pc' = "optimized"
    /\ UNCHANGED <<outcome, exc, printed, plotted, budget, adj_close, sp500_norm>>
    /\ UNCHANGED <<dlVars, envVars, allocVars>>

---------------------------------------------------------------------------
(* print_allocation and plot_performance. *)

\* allocation_amount = optimal_weights * investment_limit
AllocationAmountNoWeight(w, limit) == [i \in 1..Len(w) |-> FromInt(limit)]
AllocationAmount(w, limit) == [i \in 1..Len(w) |-> FMul(w[i], FromInt(limit))]

\* astype(int) of a finite value: the fraction is cut off (towards zero)
AsTypeIntUp(x) == -((-x[1]) \div x[2])
AsTypeInt(x) == IF x[1] >= 0 THEN x[1] \div x[2] ELSE -((-x[1]) \div x[2])

\* print_allocation: the summary, then the plan.  Series.astype(int) raises
\* ValueError when a quotient is NaN or infinite; main catches it.
PrintAllocation ==
    /\ pc = "optimized"
    /\ LET amount == AllocationAmount(optimal_weights, budget)
           quot == [i \in 1..Len(amount) |-> FDiv(amount[i], latest_prices[i])]
       IN  /\ port_return' = Dot(optimal_weights, mean_returns)
           /\ allocation_amount' = amount
           /\ IF \E i \in 1..Len(quot) : ~IsFinite(quot[i])
              THEN /\ MainExcept("ValueError", printed \o <<"summary">>)
                   /\ UNCHANGED num_shares
              ELSE /\ num_shares' = [i \in 1..Len(quot) |-> AsTypeInt(quot[i])]
                   /\ printed' = printed \o <<"summary", "plan">>
                   /\ pc' = "allocated"
                   /\ UNCHANGED <<outcome, exc>>
    /\ UNCHANGED <<plotted, budget, adj_close, sp500_norm, dlVars, envVars, optVars>>

\* plot_performance draws the chart; main returns
PlotPerformance ==
    /\ pc = "allocated"
    /\ plotted' = TRUE
    /\ pc' = "done"
    /\ outcome' = "completed"
    /\ UNCHANGED <<exc, printed, budget, adj_close, sp500_norm>>
    /\ UNCHANGED <<dlVars, envVars, optVars, allocVars>>

---------------------------------------------------------------------------
(* The run of main. *)

NotCalled ==
    /\ tickers = "none" /\ retries = 0 /\ attempt = 0
    /\ dl_status = "idle" /\ dl_log = <<>> /\ data = NoData

NotOptimized ==
    /\ returns = <<>> /\ mean_returns = <<>> /\ cov_matrix = <<>>
    /\ success = FALSE /\ optimal_weights = <<>> /\ latest_prices = <<>>

NotAllocated ==
    /\ port_return = NaN /\ allocation_amount = <<>> /\ num_shares = <<>>

Init ==
    /\ pc = "get_user_inputs"
    /\ outcome = "running" /\ exc = "none" /\ printed = <<>> /\ plotted = FALSE
    /\ market_stocks \in RawFrames(MaxT)
    /\ market_sp500 \in Sp500Series
    /\ budget = 0
    /\ NotCalled
    /\ adj_close = NoFrame /\ sp500_norm = <<>>
    /\ NotOptimized
    /\ NotAllocated

Next ==
    \/ GetUserInputs
    \/ SafeDownloadAttempt
    \/ SafeDownloadRaise
    \/ FetchStocksDone
    \/ FetchSp500Done
    \/ FetchFailed
    \/ MainNoData
    \/ OptimizePortfolio
    \/ PrintAllocation
    \/ PlotPerformance

Spec == Init /\ [][Next]_vars

---------------------------------------------------------------------------
(* safe_download alone, for every value of retries. *)

InitDownload ==
    /\ pc = "safe_download"
    /\ outcome = "running" /\ exc = "none" /\ printed = <<>> /\ plotted = FALSE
    /\ market_stocks \in RawFrames(1)
    /\ market_sp500 \in Sp500Series
    /\ budget = 0
    /\ tickers \in {"stocks", "^GSPC"}
    /\ retries \in 0..MaxRetries
    /\ attempt = 0 /\ dl_status = "running" /\ dl_log = <<>> /\ data = NoData
    /\ adj_close = NoFrame /\ sp500_norm = <<>>
    /\ NotOptimized
    /\ NotAllocated

NextDownload ==
    \/ SafeDownloadAttempt
    \/ SafeDownloadRaise

SpecDownload == InitDownload /\ [][NextDownload]_vars

---------------------------------------------------------------------------
(* optimize_portfolio alone, on every price matrix fetch_data may return. *)

\* frames whose prices are all missing or positive
PositiveFrames(maxT) ==
    {[cols |-> StockCols, rows |-> r] :
        r \in UNION {RowSeqs(n, NumStocks, HistVals) : n \in 0..maxT}}

InitOptimize ==
    /\ pc = "fetched"
    /\ outcome = "running" /\ exc = "none" /\ printed = <<>> /\ plotted = FALSE
    /\ market_stocks \in PositiveFrames(MaxT)
    /\ market_sp500 = <<FromInt(2)>>
    /\ budget \in Budgets
    /\ NotCalled
    /\ adj_close = DropAllNaNColumns(market_stocks)
    /\ sp500_norm = <<One>>
    /\ NotOptimized
    /\ NotAllocated

NextOptimize ==
    \/ MainNoData
    \/ OptimizePortfolio

SpecOptimize == InitOptimize /\ [][NextOptimize]_vars

---------------------------------------------------------------------------
(* print_allocation alone, on weight vectors, budgets and latest prices. *)

\* the vectors of m non-negative fractions of denominator up to AllocDen that sum to 1
WeightVectors(m) ==
    UNION {{[i \in 1..m |-> Float(f[i], den)] :
               f \in {g \in [1..m -> 0..den] : FSum([i \in 1..m |-> FromInt(g[i])]) = FromInt(den)}} :
           den \in 1..AllocDen}

AllocBudgets == {-7, 130, 10000}
AllocPrices == {FromInt(-1), FromInt(0), FromInt(25), FromInt(50), FromInt(100)}

InitAllocate ==
    /\ pc = "optimized"
    /\ outcome = "running" /\ exc = "none" /\ printed = <<>> /\ plotted = FALSE
    /\ market_sp500 = <<FromInt(2)>>
    /\ budget \in AllocBudgets
    /\ NotCalled
    /\ sp500_norm = <<One>>
    /\ \E m \in 1..NumStocks :
          /\ optimal_weights \in WeightVectors(m)
          /\ latest_prices \in [1..m -> AllocPrices]
          /\ adj_close = [cols |-> [i \in 1..m |-> i],
                          rows |-> <<latest_prices, latest_prices, latest_prices>>]
          /\ returns = DropNaNRows(PctChange(adj_close.rows, TRUE))
          /\ mean_returns = Mean(returns, m)
          /\ cov_matrix = Cov(returns, m)
    /\ market_stocks = adj_close
    /\ success = TRUE
    /\ NotAllocated

NextAllocate ==
    \/ PrintAllocation
    \/ PlotPerformance

SpecAllocate == InitAllocate /\ [][NextAllocate]_vars

---------------------------------------------------------------------------
(* Fairness: safe_download runs sequentially, so the loop takes its next *)
(* step whenever it has one.                                              *)

FairSpecDownload == SpecDownload /\ WF_vars(NextDownload)

---------------------------------------------------------------------------
(* Properties. *)

Range(s) == {s[i] : i \in 1..Len(s)}

\* a weight vector: components in [0, 1] that sum to 1
ValidWeights(w) ==
    /\ FSum(w) = One
    /\ \A i \in 1..Len(w) : FLe(Zero, w[i]) /\ FLe(w[i], One)

C2_DivergenceAborts ==
    (returns # <<>> /\ ~success) =>
        /\ optimal_weights = <<>>
        /\ pc \notin {"optimized", "allocated"}
        /\ "summary" \notin Range(printed)
        /\ ~plotted

\* the price matrix has too few observations for the statistics: fewer than
\* two time points, or every return row holds an undefined value
InsufficientData ==
    /\ ~IsEmpty(adj_close)
    /\ \/ NumRows(adj_close) < 2
       \/ \A pad \in BOOLEAN : DropNaNRows(PctChange(adj_close.rows, pad)) = <<>>

\* C3: on a price matrix with fewer than 2 time points, or whose cleaned
\* return series is empty, the statistics step fails: optimize_portfolio
\* never returns and no mean vector, covariance matrix or weight vector is
\* produced.
C3_InsufficientDataFails ==
    InsufficientData =>
        /\ pc \notin {"optimized", "allocated"}
        /\ mean_returns = <<>>
        /\ cov_matrix = <<>>
        /\ optimal_weights = <<>>

\* the optimisation produced what it is meant to: defined statistics, a
\* converged solver and a weight vector
OptimizationSucceeded ==
    /\ returns # <<>>
    /\ \A i \in 1..Len(mean_returns) : IsFinite(mean_returns[i])
    /\ success
    /\ ValidWeights(optimal_weights)

\* some latest price is undefined, zero or negative
BadLatestPrice ==
    /\ latest_prices # <<>>
    /\ \E i \in 1..Len(latest_prices) :
          IsNaN(latest_prices[i]) \/ FLe(latest_prices[i], Zero)

\* C4: whenever a latest price is <= 0 or undefined, the allocation step
\* fails: once print_allocation has run (here after an optimisation that
\* converged on defined statistics), the run has ended with an error and no
\* share count was computed or reported.
C4_InvalidPriceFails ==
    (BadLatestPrice /\ OptimizationSucceeded /\ pc \in {"allocated", "done"}) =>
        /\ outcome = "exception"
        /\ num_shares = <<>>
        /\ "plan" \notin Range(printed)

PricesPositive ==
    \A i \in 1..Len(latest_prices) : FLt(Zero, latest_prices[i])

\* C5: with a positive budget B and latest prices all > 0, the dollar amount
\* of every asset is w[asset] * B and its share count is
\* floor(dollar amount / price[asset]); B = 10000, weights [0.5, 0.3, 0.2] and
\* prices [100, 50, 25] give amounts [5000, 3000, 2000] and shares [50, 60, 80].
C5_AllocationFormula ==
    (allocation_amount # <<>> /\ budget > 0 /\ PricesPositive) =>
        /\ num_shares # <<>>
        /\ \A i \in 1..Len(optimal_weights) :
              LET w == optimal_weights[i]
                  price == latest_prices[i]
              IN  /\ allocation_amount[i][1] * w[2] = w[1] * budget * allocation_amount[i][2]
                  /\ num_shares[i] = (w[1] * budget * price[2]) \div (w[2] * price[1])
        /\ ( /\ optimal_weights = <<Float(1, 2), Float(3, 10), Float(1, 5)>>
             /\ budget = 10000
             /\ latest_prices = <<FromInt(100), FromInt(50), FromInt(25)>> )
           => /\ allocation_amount = <<FromInt(5000), FromInt(3000), FromInt(2000)>>
              /\ num_shares = <<50, 60, 80>>

\* C5 witness: the allocation of the example has been computed.
C5_Witness ==
    /\ pc = "allocated"
    /\ optimal_weights = <<Float(1, 2), Float(3, 10), Float(1, 5)>>
    /\ budget = 10000
    /\ latest_prices = <<FromInt(100), FromInt(50), FromInt(25)>>
    /\ num_shares = <<50, 60, 80>>

\* asset i has a mean return strictly greater than that of every other asset
Dominates(i) ==
    /\ \A j \in 1..Len(mean_returns) : IsFinite(mean_returns[j])
    /\ \A j \in 1..Len(mean_returns) : j # i => FLt(mean_returns[j], mean_returns[i])

Corner(i, m) == [j \in 1..m |-> IF j = i THEN One ELSE Zero]

\* C6: if one asset's mean return is strictly greater than every other
\* asset's, the weight vector returned puts weight 1 on that asset and 0 on
\* every other asset.
C6_DominantAssetCorner ==
    pc = "optimized" =>
        \A i \in 1..Len(mean_returns) :
            Dominates(i) => optimal_weights = Corner(i, Len(mean_returns))

\* C7: on a price matrix with exactly 2 time points and 1 asset, the return
\* series has length 1, the mean equals that single return and the
\* covariance is 0.
C7_TwoPointsOneAsset ==
    ( /\ pc = "optimized"
      /\ NumRows(adj_close) = 2 /\ NumCols(adj_close) = 1
      /\ \A t \in 1..2 : ~IsNaN(adj_close.rows[t][1]) )
    => /\ Len(returns) = 1
       /\ mean_returns = returns[1]
       /\ cov_matrix = <<<<Zero>>>>

\* C8: a failure in any step ends the run with a message and no later step
\* runs: an allocation is printed only after fetch and optimisation both
\* succeeded, a plot is drawn only after the allocation was printed without
\* error, and no default weights or prices stand in for a failed step's output.
C8_FailureStopsTheRun ==
    /\ outcome \in {"exception", "exit"} => pc = "done" /\ ~plotted /\ printed # <<>>
    /\ "plan" \in Range(printed) =>
          /\ ~IsEmpty(adj_close) /\ sp500_norm # <<>>
          /\ OptimizationSucceeded
    /\ plotted => "plan" \in Range(printed) /\ "error" \notin Range(printed)

\* C9: safe_download makes at most retries attempts; every attempt but the
\* last one made ended with a rate-limit failure; it returns the data of the
\* first successful attempt and makes no attempt after it; when no attempt
\* succeeded it ends in an error and returns nothing; and it always ends.
C9_Invariant ==
    /\ attempt <= retries
    /\ Len(dl_log) = attempt
    /\ \A k \in 1..(Len(dl_log) - 1) : dl_log[k] = "rate"
    /\ dl_status = "returned" <=> "ok" \in Range(dl_log)
    /\ dl_status = "returned" => data = Payload(tickers)
    /\ dl_status # "returned" => data = NoData
    /\ dl_status = "raised" =>
          \/ attempt = retries
          \/ (attempt > 0 /\ dl_log[attempt] = "other")

C9_SafeDownload ==
    /\ []C9_Invariant
    /\ <>(dl_status \in {"returned", "raised"})
    /\ [][(dl_status \in {"returned", "raised"}) => UNCHANGED dlVars]_vars

\* C9 witness: two rate-limit failures, then the third attempt succeeded.
C9_Witness ==
    /\ dl_status = "returned"
    /\ retries = 3
    /\ dl_log = <<"rate", "rate", "ok">>
    /\ data = Payload(tickers)

\* C10: for a weight vector with non-negative components summing to 1, a
\* positive budget B and latest prices all > 0, the share counts are
\* non-negative and their total cost, the sum of shares * price, is at most B.
C10_CostWithinBudget ==
    (num_shares # <<>> /\ ValidWeights(optimal_weights) /\ budget > 0 /\ PricesPositive) =>
        /\ \A i \in 1..Len(num_shares) : num_shares[i] >= 0
        /\ FLe(FSum([i \in 1..Len(num_shares) |-> FMul(FromInt(num_shares[i]), latest_prices[i])]),
               FromInt(budget))

\* C10 witness: three assets at price 25 and a budget of 130 split evenly:
\* one share each, 75 of the 130 spent.
C10_Witness ==
    /\ pc = "allocated"
    /\ budget = 130
    /\ optimal_weights = <<Float(1, 3), Float(1, 3), Float(1, 3)>>
    /\ latest_prices = <<FromInt(25), FromInt(25), FromInt(25)>>
    /\ num_shares = <<1, 1, 1>>

====
